---- MODULE Spec2Model ----
(***************************************************************************)
(* Model of generate_icon.py: the icon renderer (create_icon and           *)
(* draw_brain_icon) and the icon-set driver (main).                        *)
(*                                                                         *)
(* A canvas is kept as its dimensions and the list of drawing calls made   *)
(* on it, each with the integer coordinates the code computes; the colour  *)
(* of a pixel is computed from that list (PixelColor).  The two            *)
(* directories the driver touches are functions from file name to file     *)
(* content.                                                                *)
(***************************************************************************)
EXTENDS Integers, Sequences, FiniteSets, TLC

VARIABLES
    pc,          \* position of main
    i,           \* index into SIZES of the size loop
    j,           \* index into icon_mappings of the copy loop
    iconset,     \* the AppIcon.appiconset directory: file name -> content
    iconset0,    \* the names that directory held before main started
    tmpExists,   \* whether /tmp/ClaudeMenuBar.iconset exists
    tmp,         \* that directory: file name -> content
    img,         \* the canvas of the most recent create_icon call
    geom,        \* the locals of the most recent draw_brain_icon call
    stdout,      \* what has been printed
    written,     \* every img.save / json.dump of this run, in order
    copies,      \* every shutil.copy of this run, in order
    runs,        \* number of subprocess.run calls made
    result,      \* the CompletedProcess of subprocess.run, once it returned
    icns         \* whether ClaudeMenuBar.icns has been produced

vars == <<pc, i, j, iconset, iconset0, tmpExists, tmp, img, geom, stdout,
          written, copies, runs, result, icns>>

----------------------------------------------------------------------------
(* Bounds of the model *)

\* at most this many files lie in each directory before main starts
MaxStale == 2

\* names a file left over in either directory may have
StaleNames == {"icon_16x16.png", "icon_512x512@2x.png", "icon_1024x1024.png",
               "old_icon.png"}

\* diagnostic texts a failing iconutil may give
StderrTexts == {"Invalid Iconset.", ""}

\* exit statuses iconutil may return
ExitCodes == {0, 1}

----------------------------------------------------------------------------
(* Program constants *)

SIZESWithout64 == <<16, 32, 128, 256, 512, 1024>>

SIZES == <<16, 32, 64, 128, 256, 512, 1024>>

CLAUDE_ORANGE == "orange"
WHITE == "white"
TRANSPARENT == "transparent"

\* str(n) for the numbers that occur in file names
Str(n) ==
    CASE n = 16 -> "16" [] n = 32 -> "32" [] n = 64 -> "64" [] n = 128 -> "128"
      [] n = 256 -> "256" [] n = 512 -> "512" [] n = 1024 -> "1024"
      [] n = 2048 -> "2048" [] OTHER -> "?"

\* f'icon_{size}x{size}.png'
Name1x(size) == "icon_" \o Str(size) \o "x" \o Str(size) \o ".png"

\* f'icon_{size}x{size}@2x.png'
Name2x(size) == "icon_" \o Str(size) \o "x" \o Str(size) \o "@2x.png"

----------------------------------------------------------------------------
(* draw_brain_icon: the geometry *)

\* int(k * s) with s = size / 100.0.  For every size the driver renders the
\* double product is not within rounding distance of an integer, so the
\* truncation equals the exact floor.
Scaled(k, size) == (k * size) \div 100

\* cx, cy = size / 2, size / 2 (every rendered size is even)
Centre(size) == size \div 2

Padding(size) == Scaled(20, size)

BrainWidth(size) == size - (Padding(size) * 2)

\* int(brain_width * 0.85)
BrainHeight(size) == (BrainWidth(size) * 85) \div 100

TopYRaised(size) == Centre(size) - (BrainHeight(size) \div 2) - Scaled(5, size)

\* top_y = cy - brain_height // 2 + int(5 * s)
TopY(size) == Centre(size) - (BrainHeight(size) \div 2) + Scaled(5, size)

StemWidth(size) == Scaled(12, size)

StemHeightLong(size) == Scaled(25, size)

StemHeight(size) == Scaled(15, size)

Max(a, b) == IF a >= b THEN a ELSE b

\* line_width = max(1, int(2 * s))
LineWidth(size) == Max(1, Scaled(2, size))

\* the percentages of [0.25, 0.5, 0.7]
Offsets == <<25, 50, 70>>

\* y_pos = top_y + int(brain_height * offset)
YPos(size, k) == TopY(size) + ((BrainHeight(size) * Offsets[k]) \div 100)

\* one drawing call
Op(shape, box, fill, width, radius) ==
    [shape |-> shape, box |-> box, fill |-> fill, width |-> width,
     radius |-> radius]

LeftHemisphere(size, color) ==
    Op("ellipse",
       <<Padding(size), TopY(size),
         Centre(size) + Scaled(5, size), TopY(size) + BrainHeight(size)>>,
       color, 0, 0)

RightHemisphere(size, color) ==
    Op("ellipse",
       <<Centre(size) - Scaled(5, size), TopY(size),
         size - Padding(size), TopY(size) + BrainHeight(size)>>,
       color, 0, 0)

Stem(size, color) ==
    Op("ellipse",
       <<Centre(size) - (StemWidth(size) \div 2),
         TopY(size) + BrainHeight(size) - Scaled(10, size),
         Centre(size) + (StemWidth(size) \div 2),
         TopY(size) + BrainHeight(size) + StemHeight(size)>>,
       color, 0, 0)

CentralFissure(size) ==
    Op("line",
       <<Centre(size), TopY(size) + Scaled(10, size),
         Centre(size), TopY(size) + BrainHeight(size) - Scaled(15, size)>>,
       CLAUDE_ORANGE, LineWidth(size), 0)

LeftArc(size, k) ==
    Op("arc",
       <<Padding(size) + Scaled(5, size), YPos(size, k) - Scaled(10, size),
         Centre(size) - Scaled(5, size), YPos(size, k) + Scaled(10, size)>>,
       CLAUDE_ORANGE, LineWidth(size), 0)

RightArc(size, k) ==
    Op("arc",
       <<Centre(size) + Scaled(5, size), YPos(size, k) - Scaled(10, size),
         size - Padding(size) - Scaled(5, size),
         YPos(size, k) + Scaled(10, size)>>,
       CLAUDE_ORANGE, LineWidth(size), 0)

\* the drawing calls of draw_brain_icon, in order
draw_brain_icon(size, color) ==
    <<LeftHemisphere(size, color), RightHemisphere(size, color),
      Stem(size, color), CentralFissure(size),
      LeftArc(size, 1), LeftArc(size, 2), LeftArc(size, 3),
      RightArc(size, 1), RightArc(size, 2), RightArc(size, 3)>>

\* the locals draw_brain_icon computes before it draws
BrainLocals(size) ==
    [size |-> size, padding |-> Padding(size),
     brain_width |-> BrainWidth(size), brain_height |-> BrainHeight(size),
     top_y |-> TopY(size), line_width |-> LineWidth(size)]

NoLocals ==
    [size |-> 0, padding |-> 0, brain_width |-> 0, brain_height |-> 0,
     top_y |-> 0, line_width |-> 0]

----------------------------------------------------------------------------
(* create_icon: the canvas *)

CornerRadiusSquare(size) == 0

\* corner_radius = int(size * 0.22)
CornerRadius(size) == (22 * size) \div 100

Background(size) ==
    Op("rounded_rectangle", <<0, 0, size - 1, size - 1>>, CLAUDE_ORANGE, 0,
       CornerRadius(size))

NewImageReused(size) == [w |-> size, h |-> size, ops |-> img.ops]

\* Image.new('RGBA', (size, size), (0, 0, 0, 0))
NewImage(size) == [w |-> size, h |-> size, ops |-> <<>>]

\* the canvas create_icon saves
Render(size) ==
    LET blank == NewImage(size)
    IN  [blank EXCEPT !.ops = blank.ops \o <<Background(size)>>
                                       \o draw_brain_icon(size, WHITE)]

\* |n|
Abs(n) == IF n < 0 THEN -n ELSE n

\* whether pixel (x, y) lies in the ellipse inscribed in box; the quadratic
\* form is evaluated on coordinates normalised to thousandths of the
\* semi-axes
InEllipse(box, x, y) ==
    LET a  == box[3] - box[1]
        b  == box[4] - box[2]
        dx == Abs((2 * x) - box[1] - box[3])
        dy == Abs((2 * y) - box[2] - box[4])
    IN  /\ a >= 0 /\ b >= 0
        /\ dx <= a /\ dy <= b
        /\ LET nx == IF a = 0 THEN 0 ELSE (dx * 1000) \div a
               ny == IF b = 0 THEN 0 ELSE (dy * 1000) \div b
           IN  (nx * nx) + (ny * ny) <= 1000000

\* whether pixel (x, y) lies in the rounded rectangle: in the box, and in a
\* corner square only within the quarter circle of the given radius
InRoundedRect(box, r, x, y) ==
    LET kx == IF x < box[1] + r THEN box[1] + r
              ELSE IF x > box[3] - r THEN box[3] - r ELSE x
        ky == IF y < box[2] + r THEN box[2] + r
              ELSE IF y > box[4] - r THEN box[4] - r ELSE y
    IN  /\ box[1] <= x /\ x <= box[3]
        /\ box[2] <= y /\ y <= box[4]
        /\ ((x - kx) * (x - kx)) + ((y - ky) * (y - ky)) <= r * r

\* whether the drawing call paints pixel (x, y)
Covers(op, x, y) ==
    CASE op.shape = "rounded_rectangle" -> InRoundedRect(op.box, op.radius, x, y)
      [] op.shape = "ellipse" -> InEllipse(op.box, x, y)
      [] op.shape = "line" ->
            /\ op.box[2] <= y /\ y <= op.box[4]
            /\ 2 * Abs(x - op.box[1]) <= op.width
      [] op.shape = "arc" ->
            \* start=0, end=180: the lower half of the outline, width pixels
            \* thick towards the inside
            /\ InEllipse(op.box, x, y)
            /\ 2 * y >= op.box[2] + op.box[4]
            /\ ~InEllipse(<<op.box[1] + op.width, op.box[2] + op.width,
                            op.box[3] - op.width, op.box[4] - op.width>>, x, y)
      [] OTHER -> FALSE

\* the colour of pixel (x, y): that of the last call that painted it
PixelColor(canvas, x, y) ==
    LET hit == {k \in DOMAIN canvas.ops : Covers(canvas.ops[k], x, y)}
    IN  IF hit = {} THEN TRANSPARENT
        ELSE canvas.ops[CHOOSE k \in hit : \A m \in hit : m <= k].fill

----------------------------------------------------------------------------
(* Files and directories *)

PngFile(canvas) ==
    [kind |-> "png", w |-> canvas.w, h |-> canvas.h, ops |-> canvas.ops,
     images |-> <<>>]

JsonFile(images) ==
    [kind |-> "json", w |-> 0, h |-> 0, ops |-> <<>>, images |-> images]

\* a file that was there before this run
StaleFile == [kind |-> "stale", w |-> 0, h |-> 0, ops |-> <<>>, images |-> <<>>]

\* the directory after a file is written (created or overwritten)
Put(dir, name, content) ==
    [n \in (DOMAIN dir) \cup {name} |-> IF n = name THEN content ELSE dir[n]]

EmptyDir == [n \in {} |-> StaleFile]

\* the directories that hold at most MaxStale left-over files
StaleDirs ==
    {[n \in S |-> StaleFile] :
        S \in {T \in SUBSET StaleNames : Cardinality(T) <= MaxStale}}

----------------------------------------------------------------------------
(* main: its tables *)

Entry(filename, scale, size) ==
    [filename |-> filename, idiom |-> "mac", scale |-> scale, size |-> size]

ContentsWith1024 ==
    <<Entry("icon_16x16.png", "1x", "16x16"),
      Entry("icon_16x16@2x.png", "2x", "16x16"),
      Entry("icon_32x32.png", "1x", "32x32"),
      Entry("icon_32x32@2x.png", "2x", "32x32"),
      Entry("icon_128x128.png", "1x", "128x128"),
      Entry("icon_128x128@2x.png", "2x", "128x128"),
      Entry("icon_256x256.png", "1x", "256x256"),
      Entry("icon_256x256@2x.png", "2x", "256x256"),
      Entry("icon_512x512.png", "1x", "512x512"),
      Entry("icon_1024x1024@2x.png", "2x", "512x512")>>

\* contents["images"]
Contents ==
    <<Entry("icon_16x16.png", "1x", "16x16"),
      Entry("icon_16x16@2x.png", "2x", "16x16"),
      Entry("icon_32x32.png", "1x", "32x32"),
      Entry("icon_32x32@2x.png", "2x", "32x32"),
      Entry("icon_128x128.png", "1x", "128x128"),
      Entry("icon_128x128@2x.png", "2x", "128x128"),
      Entry("icon_256x256.png", "1x", "256x256"),
      Entry("icon_256x256@2x.png", "2x", "256x256"),
      Entry("icon_512x512.png", "1x", "512x512"),
      Entry("icon_512x512@2x.png", "2x", "512x512")>>

icon_mappings ==
    <<<<16, "icon_16x16.png">>, <<32, "icon_16x16@2x.png">>,
      <<32, "icon_32x32.png">>, <<64, "icon_32x32@2x.png">>,
      <<128, "icon_128x128.png">>, <<256, "icon_128x128@2x.png">>,
      <<256, "icon_256x256.png">>, <<512, "icon_256x256@2x.png">>,
      <<512, "icon_512x512.png">>, <<1024, "icon_512x512@2x.png">>>>

SrcForDirect(size) == Name1x(size)

\* src of the copy loop
SrcFor(size) == IF size > 512 THEN "icon_512x512@2x.png" ELSE Name1x(size)

Needs2xBelow512(size) == size < 512

\* if size <= 512
Needs2x(size) == size <= 512

\* one printed line
Line(msg, size, text) == [msg |-> msg, size |-> size, text |-> text]

NoResult == [returned |-> FALSE, returncode |-> 0, stderr |-> ""]

----------------------------------------------------------------------------
(* The state before main runs *)

Init ==
    /\ pc = "makedirs"
    /\ i = 1
    /\ j = 1
    /\ iconset \in StaleDirs
    /\ iconset0 = DOMAIN iconset
    /\ tmpExists \in BOOLEAN
    /\ tmp \in (IF tmpExists THEN StaleDirs ELSE {EmptyDir})
    /\ img = [w |-> 0, h |-> 0, ops |-> <<>>]
    /\ geom = NoLocals
    /\ stdout = <<>>
    /\ written = <<>>
    /\ copies = <<>>
    /\ runs = 0
    /\ result = NoResult
    /\ icns = FALSE

----------------------------------------------------------------------------
(* main, step by step *)

\* os.makedirs(iconset_dir, exist_ok=True)
MakeIconsetDir ==
    /\ pc = "makedirs"
    /\ pc' = "create1x"
    /\ UNCHANGED <<i, j, iconset, iconset0, tmpExists, tmp, img, geom, stdout,
                   written, copies, runs, result, icns>>

\* create_icon(size, output_path), called in the iteration for loop value
\* iter: render, save, print
create_icon(iter, size, name) ==
    /\ img' = Render(size)
    /\ geom' = BrainLocals(size)
    /\ iconset' = Put(iconset, name, PngFile(img'))
    /\ written' = Append(written,
                         [iter |-> iter, name |-> name, w |-> img'.w,
                          h |-> img'.h])
    /\ stdout' = Append(stdout, Line("Created icon", size, name))

\* the end of one iteration of `for size in SIZES`
NextSize ==
    IF i < Len(SIZES)
    THEN /\ i' = i + 1
         /\ pc' = "create1x"
    ELSE /\ i' = i
         /\ pc' = "manifest"

\* the 1x file of the current size, and the test `if size <= 512`
Create1x ==
    /\ pc = "create1x"
    /\ create_icon(SIZES[i], SIZES[i], Name1x(SIZES[i]))
    /\ IF Needs2x(SIZES[i])
       THEN /\ pc' = "create2x"
            /\ i' = i
       ELSE NextSize
    /\ UNCHANGED <<j, iconset0, tmpExists, tmp, copies, runs, result, icns>>

\* the @2x file of the current size
Create2x ==
    /\ pc = "create2x"
    /\ create_icon(SIZES[i], SIZES[i] * 2, Name2x(SIZES[i]))
    /\ NextSize
    /\ UNCHANGED <<j, iconset0, tmpExists, tmp, copies, runs, result, icns>>

WriteManifestSkipped ==
    /\ pc = "manifest"
    /\ pc' = "mktmp"
    /\ UNCHANGED <<i, j, iconset, iconset0, tmpExists, tmp, img, geom, stdout,
                   written, copies, runs, result, icns>>

\* json.dump(contents, f, indent=2) into Contents.json
WriteManifest ==
    /\ pc = "manifest"
    /\ iconset' = Put(iconset, "Contents.json", JsonFile(Contents))
    /\ written' = Append(written,
                         [iter |-> 0, name |-> "Contents.json", w |-> 0,
                          h |-> 0])
    /\ stdout' = Append(stdout, Line("Updated", 0, "Contents.json"))
    /\ pc' = "mktmp"
    /\ UNCHANGED <<i, j, iconset0, tmpExists, tmp, img, geom, copies, runs,
                   result, icns>>

\* os.makedirs(iconset_tmp, exist_ok=True)
MakeTmpDir ==
    /\ pc = "mktmp"
    /\ stdout' = Append(stdout, Line("Creating .icns file...", 0, ""))
    /\ tmpExists' = TRUE
    /\ pc' = "copy"
    /\ UNCHANGED <<i, j, iconset, iconset0, tmp, img, geom, written, copies,
                   runs, result, icns>>

\* one iteration of `for size, name in icon_mappings`
CopyOne ==
    /\ pc = "copy"
    /\ LET size == icon_mappings[j][1]
           name == icon_mappings[j][2]
           src  == SrcFor(size)
       IN  IF src \in DOMAIN iconset
           THEN /\ tmp' = Put(tmp, name, iconset[src])
                /\ copies' = Append(copies, [src |-> src, dst |-> name])
           ELSE UNCHANGED <<tmp, copies>>
    /\ IF j < Len(icon_mappings)
       THEN /\ j' = j + 1
            /\ pc' = "copy"
       ELSE /\ j' = j
            /\ pc' = "run"
    /\ UNCHANGED <<i, iconset, iconset0, tmpExists, img, geom, stdout,
                   written, runs, result, icns>>

\* subprocess.run(['iconutil', ...]) returns with some exit status
IconutilReturns ==
    /\ pc = "run"
    /\ \E code \in ExitCodes, text \in StderrTexts :
          /\ result' = [returned |-> TRUE, returncode |-> code,
                        stderr |-> text]
          /\ icns' = (icns \/ code = 0)
    /\ runs' = runs + 1
    /\ pc' = "report"
    /\ UNCHANGED <<i, j, iconset, iconset0, tmpExists, tmp, img, geom, stdout,
                   written, copies>>

\* subprocess.run finds no iconutil executable: FileNotFoundError leaves main
IconutilMissing ==
    /\ pc = "run"
    /\ runs' = runs + 1
    /\ pc' = "raised"
    /\ UNCHANGED <<i, j, iconset, iconset0, tmpExists, tmp, img, geom, stdout,
                   written, copies, result, icns>>

ReportChecked ==
    /\ pc = "report"
    /\ IF result.returncode = 0
       THEN /\ stdout' = Append(stdout, Line("Created icns", 0, ""))
            /\ pc' = "cleanup"
       ELSE /\ stdout' = stdout
            /\ pc' = "raised"
    /\ UNCHANGED <<i, j, iconset, iconset0, tmpExists, tmp, img, geom,
                   written, copies, runs, result, icns>>

\* if result.returncode == 0: print(...) else: print(...)
Report ==
    /\ pc = "report"
    /\ stdout' = Append(stdout,
                        IF result.returncode = 0
                        THEN Line("Created icns", 0, "")
                        ELSE Line("iconutil error", 0, result.stderr))
    /\ pc' = "cleanup"
    /\ UNCHANGED <<i, j, iconset, iconset0, tmpExists, tmp, img, geom,
                   written, copies, runs, result, icns>>

\* shutil.rmtree(iconset_tmp, ignore_errors=True)
Cleanup ==
    /\ pc = "cleanup"
    /\ tmpExists' = FALSE
    /\ tmp' = EmptyDir
    /\ pc' = "done"
    /\ UNCHANGED <<i, j, iconset, iconset0, img, geom, stdout, written,
                   copies, runs, result, icns>>

Next ==
    \/ MakeIconsetDir
    \/ Create1x
    \/ Create2x
    \/ WriteManifest
    \/ MakeTmpDir
    \/ CopyOne
    \/ IconutilReturns
    \/ IconutilMissing
    \/ Report
    \/ Cleanup

Spec == Init /\ [][Next]_vars

----------------------------------------------------------------------------
(* Vocabulary of the properties *)

\* the PNG files of a directory that an image was saved to
PngNames(dir) == {n \in DOMAIN dir : dir[n].kind = "png"}

\* main is inside or before the size loop
InSizeLoop == pc \in {"makedirs", "create1x", "create2x"}

\* main is past the write of Contents.json
AfterManifest ==
    pc \in {"mktmp", "copy", "run", "report", "cleanup", "done", "raised"}

\* the iterations of the size loop that are complete
Completed == IF InSizeLoop THEN 1 .. (i - 1) ELSE 1 .. Len(SIZES)

\* the positions of `written` that belong to the iteration for edge e
WritesOf(e) == {k \in DOMAIN written : written[k].iter = e}

\* the names saved so far in this run
WrittenNames == {written[k].name : k \in DOMAIN written}

NominalSizes == {16, 32, 128, 256, 512}

RenderedEdges == {16, 32, 64, 128, 256, 512, 1024}

ThirteenPngs ==
    {"icon_16x16.png", "icon_16x16@2x.png", "icon_32x32.png",
     "icon_32x32@2x.png", "icon_64x64.png", "icon_64x64@2x.png",
     "icon_128x128.png", "icon_128x128@2x.png", "icon_256x256.png",
     "icon_256x256@2x.png", "icon_512x512.png", "icon_512x512@2x.png",
     "icon_1024x1024.png"}

ElevenNamedPngs == ThirteenPngs \ {"icon_64x64.png", "icon_64x64@2x.png"}

----------------------------------------------------------------------------
(* C1 *)

\* C1 as stated: from an empty icon-set directory a finished run leaves 12
\* PNG files, among them two each for 16, 32, 128, 256, 512 and one for 1024,
\* and Contents.json.
C1_TwelvePngs ==
    (pc = "done" /\ iconset0 = {}) =>
        /\ Cardinality(PngNames(iconset)) = 12
        /\ ElevenNamedPngs \subseteq PngNames(iconset)
        /\ "Contents.json" \in DOMAIN iconset

\* C1 amended: from an empty icon-set directory, once the manifest is written
\* the directory holds exactly 13 PNG files (two each for 16, 32, 64, 128,
\* 256, 512 and one for 1024) and Contents.json, and nothing else.
C1_ThirteenPngs ==
    (AfterManifest /\ iconset0 = {}) =>
        /\ DOMAIN iconset = ThirteenPngs \cup {"Contents.json"}
        /\ PngNames(iconset) = ThirteenPngs
        /\ Cardinality(PngNames(iconset)) = 13
        /\ iconset["Contents.json"].kind = "json"

C1_Witness ==
    /\ pc = "done"
    /\ iconset0 = {}
    /\ "icon_64x64@2x.png" \in PngNames(iconset)
    /\ "icon_1024x1024.png" \in PngNames(iconset)

----------------------------------------------------------------------------
(* C2 *)

\* C2: every completed iteration of the size loop for edge e saved exactly
\* two files when e <= 512 (the 1x file with an e x e canvas, then the @2x
\* file with a 2e x 2e canvas) and exactly one (the 1x file) when e > 512;
\* every canvas saved is square.
C2_FilesPerEdge ==
    /\ \A k \in Completed :
          LET e  == SIZES[k]
              W  == WritesOf(e)
              w1 == [iter |-> e, name |-> Name1x(e), w |-> e, h |-> e]
              w2 == [iter |-> e, name |-> Name2x(e), w |-> 2 * e, h |-> 2 * e]
          IN  IF e <= 512
              THEN /\ Cardinality(W) = 2
                   /\ \E a, b \in W :
                         a < b /\ written[a] = w1 /\ written[b] = w2
                   /\ iconset[Name1x(e)].w = e
                   /\ iconset[Name2x(e)].w = 2 * e
              ELSE /\ Cardinality(W) = 1
                   /\ \A a \in W : written[a] = w1
                   /\ iconset[Name1x(e)].w = e
    /\ \A k \in DOMAIN written : written[k].w = written[k].h
    /\ \A n \in PngNames(iconset) : iconset[n].w = iconset[n].h

C2_Witness ==
    /\ pc = "manifest"
    /\ Cardinality(WritesOf(512)) = 2
    /\ Cardinality(WritesOf(1024)) = 1

----------------------------------------------------------------------------
(* C3 *)

\* C3: after a complete run Contents.json has exactly 10 image entries and
\* every file name an entry gives is a file of the icon-set directory.
C3_ManifestEntriesExist ==
    pc = "done" =>
        /\ "Contents.json" \in DOMAIN iconset
        /\ Len(iconset["Contents.json"].images) = 10
        /\ \A k \in DOMAIN iconset["Contents.json"].images :
              iconset["Contents.json"].images[k].filename \in DOMAIN iconset

C3_Witness ==
    /\ pc = "done"
    /\ result.returncode # 0
    /\ iconset0 = {}
    /\ Len(iconset["Contents.json"].images) = 10

----------------------------------------------------------------------------
(* C4 *)

C4_State ==
    /\ result.returned => pc \in {"report", "cleanup", "done"}
    /\ (pc \in {"cleanup", "done"} /\ result.returncode # 0) =>
          stdout[Len(stdout)] = Line("iconutil error", 0, result.stderr)
    /\ pc \in {"report", "cleanup"} => ENABLED Next
    /\ pc = "done" => (~tmpExists /\ DOMAIN tmp = {})

\* C4: once iconutil has returned, with whatever exit status, main raises
\* nothing, prints the diagnostic text on a non-zero status, goes on to remove
\* the temporary directory and ends; the icon-set directory is not changed
\* after the command returned.
C4_FailureIsLoggedAndCleanedUp ==
    /\ []C4_State
    /\ [][result.returned => iconset' = iconset]_vars

C4_Witness ==
    /\ pc = "done"
    /\ result.returned
    /\ result.returncode # 0
    /\ result.stderr # ""
    /\ ~tmpExists

----------------------------------------------------------------------------
(* C5 *)

\* everything the size loop and the manifest step write has been written
AllWritten ==
    /\ \A k \in DOMAIN SIZES :
          /\ Name1x(SIZES[k]) \in WrittenNames
          /\ SIZES[k] <= 512 => Name2x(SIZES[k]) \in WrittenNames
    /\ "Contents.json" \in WrittenNames

C5_State ==
    /\ runs <= 1
    /\ pc \in {"report", "cleanup", "done", "raised"} => runs = 1
    /\ runs >= 1 => AllWritten

\* C5: iconutil is invoked at most once, exactly once in a run that has
\* ended, only after every PNG file and Contents.json are written, and
\* nothing is written to the icon-set directory after the invocation.
C5_RunOnceAfterAllWrites ==
    /\ []C5_State
    /\ [][runs' # runs => (AllWritten /\ runs' = runs + 1)]_vars
    /\ [][runs >= 1 => (written' = written /\ iconset' = iconset)]_vars

C5_Witness ==
    /\ pc = "done"
    /\ runs = 1
    /\ Len(written) = 14

----------------------------------------------------------------------------
(* C6 *)

\* the four corner pixels of an e x e canvas
Corners(e) == {<<0, 0>>, <<e - 1, 0>>, <<0, e - 1>>, <<e - 1, e - 1>>}

\* C6: in every image the driver has saved, the four corner pixels are
\* transparent (no drawing call paints them) and the centre pixel is not: the
\* background rectangle and the central stroke both paint it.
C6_CornersClearCentrePainted ==
    \A n \in PngNames(iconset) :
        LET c == iconset[n]
            e == c.w
        IN  /\ e \in RenderedEdges
            /\ \A p \in Corners(e) : PixelColor(c, p[1], p[2]) = TRANSPARENT
            /\ PixelColor(c, e \div 2, e \div 2) # TRANSPARENT
            /\ \E k \in DOMAIN c.ops :
                  /\ c.ops[k].shape = "rounded_rectangle"
                  /\ c.ops[k].radius = (22 * e) \div 100
                  /\ Covers(c.ops[k], e \div 2, e \div 2)
            /\ \E k \in DOMAIN c.ops :
                  /\ c.ops[k].shape = "line"
                  /\ Covers(c.ops[k], e \div 2, e \div 2)

C6_Witness ==
    /\ pc = "done"
    /\ {iconset[n].w : n \in PngNames(iconset)} = RenderedEdges
    /\ PixelColor(iconset["icon_16x16.png"], 0, 0) = TRANSPARENT
    /\ PixelColor(iconset["icon_16x16.png"], 8, 8) = CLAUDE_ORANGE
    /\ PixelColor(iconset["icon_16x16.png"], 6, 5) = WHITE

----------------------------------------------------------------------------
(* C7 *)

----------------------------------------------------------------------------
(* C8 *)

C8_Region ==
    /\ geom.padding = (20 * geom.size) \div 100
    /\ geom.brain_width = geom.size - (2 * geom.padding)
    /\ geom.brain_height = (85 * geom.brain_width) \div 100

\* C8 as stated: padding floor(20 s), width edge - 2 padding, height
\* floor(0.85 width), and the top edge above edge/2 - height/2 whenever
\* floor(5 s) > 0.
C8_TopEdgeRaised ==
    geom.size # 0 =>
        /\ C8_Region
        /\ (5 * geom.size) \div 100 > 0 =>
              2 * geom.top_y < geom.size - geom.brain_height

\* C8 amended: padding, width and height as stated, and the top edge is
\* lowered by floor(5 s): top_y = edge/2 - floor(height/2) + floor(5 s),
\* below edge/2 - height/2 whenever floor(5 s) > 0.
C8_TopEdgeLowered ==
    geom.size # 0 =>
        /\ C8_Region
        /\ geom.top_y = (geom.size \div 2) - (geom.brain_height \div 2)
                            + ((5 * geom.size) \div 100)
        /\ (5 * geom.size) \div 100 > 0 =>
              2 * geom.top_y > geom.size - geom.brain_height

C8_Witness ==
    /\ geom.size = 32
    /\ geom.padding = 6
    /\ geom.brain_height = 17
    /\ geom.top_y = 9

----------------------------------------------------------------------------
(* C9 *)

\* the name iconutil expects for nominal size n at scale k
SlotName(n, k) == IF k = 1 THEN Name1x(n) ELSE Name2x(n)

\* C9: when iconutil is about to be invoked, and until the temporary
\* directory is removed, that directory holds the 10 expected names, the file
\* for nominal size N at scale k being a copy of an image saved in this run
\* whose canvas is N k pixels wide; icon_512x512@2x.png is copied from
\* icon_512x512@2x.png and icon_1024x1024.png is never a source.
C9_TmpHoldsRemappedImages ==
    pc \in {"run", "report", "cleanup"} =>
        /\ \A n \in NominalSizes, k \in {1, 2} :
              /\ SlotName(n, k) \in PngNames(tmp)
              /\ tmp[SlotName(n, k)].w = n * k
              /\ tmp[SlotName(n, k)].h = n * k
              /\ \E c \in DOMAIN copies :
                    /\ copies[c].dst = SlotName(n, k)
                    /\ copies[c].src \in WrittenNames
                    /\ iconset[copies[c].src] = tmp[SlotName(n, k)]
        /\ \A c \in DOMAIN copies :
              /\ copies[c].src # "icon_1024x1024.png"
              /\ copies[c].dst = "icon_512x512@2x.png" =>
                    copies[c].src = "icon_512x512@2x.png"

C9_Witness ==
    /\ pc = "run"
    /\ Len(copies) = 10
    /\ "old_icon.png" \in DOMAIN tmp
    /\ "icon_16x16.png" \in iconset0
    /\ tmp["icon_512x512@2x.png"].w = 1024

----------------------------------------------------------------------------
(* C10 *)

\* a box inside an e x e canvas, not inverted
BoxInCanvas(box, e) ==
    /\ 0 <= box[1] /\ box[1] <= box[3] /\ box[3] <= e
    /\ 0 <= box[2] /\ box[2] <= box[4] /\ box[4] <= e

\* C10: in every image the driver has saved, each of the ten drawing calls of
\* draw_brain_icon got a box (for the line: end points) with
\* 0 <= x0 <= x1 <= edge and 0 <= y0 <= y1 <= edge, and every stroke is at
\* least one pixel wide, max(1, floor(2 edge / 100)).
C10_BoxesInsideCanvas ==
    \A n \in PngNames(iconset) :
        LET c == iconset[n]
        IN  /\ Len(c.ops) = 11
            /\ \A k \in 2 .. Len(c.ops) :
                  /\ BoxInCanvas(c.ops[k].box, c.w)
                  /\ c.ops[k].shape \in {"line", "arc"} =>
                        /\ c.ops[k].width >= 1
                        /\ c.ops[k].width >= (2 * c.w) \div 100
                        /\ c.ops[k].width \in {1, (2 * c.w) \div 100}

C10_Witness ==
    /\ pc = "done"
    /\ iconset["icon_1024x1024.png"].ops[4].box = <<451, 723, 573, 978>>
    /\ iconset["icon_16x16.png"].ops[4].box = <<8, 11, 8, 14>>
    /\ iconset["icon_16x16.png"].ops[5].width = 1

====
